---- MODULE Spec2Model ----
(***************************************************************************)
(* FilDOS MCP: the staged upload orchestrator (utils/storage.ts), the      *)
(* cached storage session (utils/synapse.ts), the ownership gate           *)
(* (utils/ownership.ts) and the tool handlers and dispatcher               *)
(* (handlers.ts), with the storage backend, the ledger and the search      *)
(* backend as nondeterministic environments.                               *)
(*                                                                         *)
(* Strings whose characters matter (addresses, file names, folder ids)     *)
(* are sequences of one-character strings; `undefined` is the one-element  *)
(* sequence Undefined and "" is << >>.  `null` for uploadedInfo is the     *)
(* empty record << >>, which is what spreading null yields.                *)
(***************************************************************************)
EXTENDS Integers, Sequences, FiniteSets, TLC

\* ------------------------------------------------------------------ bounds
\* backend callbacks the environment fires during one uploadFile call
MaxCallbacks == 2
\* file records the ledger accepts in all
MaxFiles == 2
\* distinct live storage-backend instances
MaxInst == 3
\* backend callbacks the environment fires during one uploadFile call while
\* two calls overlap
MaxConcurrentCallbacks == 1

\* ------------------------------------------------------------------ values
Calls == {1, 2}

Undefined == <<"undefined">>
EmptyString == << >>
Truthy(s) == s # Undefined /\ s # EmptyString

NoInstance == 0
InstIds == 1..MaxInst
ExternalInstance == MaxInst + 1

\* a value that is not a string (a number, an object) in a tool argument
BadType == <<"not a string">>

\* wallet.address, and what the ledger may hold as an owner: the same
\* address in another letter case, and somebody else's
WalletAddress == <<"A", "b">>
WalletAddressLower == <<"a", "b">>
OtherAddress == <<"c", "D">>
Addresses == {WalletAddress, WalletAddressLower, OtherAddress}

FolderIds == { <<"1">>, <<"2">>, <<"3">> }
FileNames == { <<"a", ".", "T">>, <<"R">> }
FilePaths == { <<"d", "/", "R">> }
FileContents == { <<"Q", "Q", "=", "=">> }
FileSizes == {10}
Cids == {"cidA", "cidB"}
TxHashes == {"0xh1"}

\* what a rejected backend or ledger promise carries: an Error with a
\* message, or a thrown value that is not an Error
Err(m) == [isError |-> TRUE, message |-> m]
BackendErrors == { Err("backend error"), [isError |-> FALSE, message |-> "raw"] }

NullInfo == << >>

\* an optional boolean is the set of its values: {} when undefined
NoBool == {}
Bool(v) == {v}
\* an undefined transaction response
NoTransaction == "undefined"

VARIABLES
    synapseInstance,             \* module singleton, utils/ownership.ts:27-28
    warmStorageServiceInstance,  \* module singleton, utils/ownership.ts:27-28
    datasetExists,               \* storage backend: a dataset exists for the address
    owners,                      \* ledger: folder id -> owner, Undefined if not minted
    files,                       \* ledger: folder id -> its file records, in order
    active,                      \* call slots the environment may use
    pc,                          \* per call: the await the call is suspended at
    call,                        \* per call: who called, with what, and the handler's locals
    result,                      \* per call: what the caller got back
    up,                          \* per call: uploadFile's parameters and locals
    sink,                        \* per call: what onProgress has been handed
    cbLeft,                      \* per call: callbacks the backend may still fire
    ret,                         \* per call: how the uploadFile promise settled
    hist                         \* per call: the remote operations it has invoked, in
                                 \* order, the backend instance each of uploadFile's
                                 \* operations went to, and whether its pieces were
                                 \* confirmed

vars == << synapseInstance, warmStorageServiceInstance, datasetExists,
           owners, files, active, pc, call, result, up, sink, cbLeft, ret, hist >>

cacheVars == << synapseInstance, warmStorageServiceInstance >>
ledgerVars == << owners, files >>
uploadVars == << up, sink, cbLeft, ret >>

\* the history of a call: a call that starts has none
NoHist == [invoked |-> << >>, targets |-> << >>, confirmed |-> FALSE]
Started(c) ==
    /\ pc[c] \notin {"idle", "done"}
    /\ ~(pc[c] = "uploadSettled" /\ call[c].caller = "direct")
History(c) == IF Started(c) THEN hist[c] ELSE NoHist
\* the call invokes the remote operation op and suspends on it
Invoke(c, op) ==
    hist' = [hist EXCEPT ![c] = [History(c) EXCEPT !.invoked = Append(@, op)]]
\* uploadFile invokes the operation op of the backend instance inst
InvokeOn(c, op, inst) ==
    hist' = [hist EXCEPT ![c] = [History(c) EXCEPT !.invoked = Append(@, op),
                                                   !.targets = Append(@, inst)]]
\* the call settles without invoking anything further
Keep(c) == hist' = [hist EXCEPT ![c] = History(c)]

\* ------------------------------------------------------- utils/synapse.ts
getSynapse(cached) ==
    IF cached = NoInstance
    THEN [threw |-> TRUE,
          error |-> Err("Synapse not initialized. Call initializeSynapse first.")]
    ELSE [threw |-> FALSE, value |-> cached]

InFlight(c) == pc[c] \in {"findDataSets", "createStorage", "upload"}

\* the backend instances a call in progress refers to: the one an upload in
\* flight captured, and the one an initialization in progress has created
HeldInstances ==
    { up[c].synapse : c \in {d \in Calls : InFlight(d)} }
        \cup { call[c].synapse : c \in {d \in Calls : pc[d] = "warmStorageCreate"} }

\* Synapse.create resolves with a new object: an instance no call in progress
\* can mistake for its own
FreshInstance == CHOOSE i \in InstIds : i \notin HeldInstances

\* ------------------------------------------------------- utils/storage.ts
\* a spread in which the fields already present win
Merge_keepsFirst(a, b) ==
    [k \in (DOMAIN a) \cup (DOMAIN b) |-> IF k \in DOMAIN a THEN a[k] ELSE b[k]]

\* { ...a, ...b }: the fields of b replace those of a
Merge(a, b) ==
    [k \in (DOMAIN a) \cup (DOMAIN b) |-> IF k \in DOMAIN b THEN b[k] ELSE a[k]]

Status(label, detail) == [label |-> label, detail |-> detail]

NoUpload ==
    [synapse |-> NoInstance, address |-> EmptyString, fileName |-> EmptyString,
     fileSize |-> 0, onProgress |-> "none", feeOverride |-> NoBool,
     includeDatasetCreationFee |-> NoBool,
     progress |-> 0, status |-> Status("", ""), uploadedInfo |-> NullInfo]

NoRet == [kind |-> "none"]
Threw(error) == [kind |-> "threw", error |-> error]
Returned(value) == [kind |-> "returned", value |-> value]

\* the sink: a recorder keeps every event it is handed; the handler's sink
\* prints "<progress>% - <status>" to stderr, of which the last line is kept
onProgress(kind, log, ev) ==
    IF kind = "recorder"
    THEN Append(log, ev)
    ELSE << [progress |-> ev.progress, status |-> ev.status] >>

\* b = [u |-> the upload's locals, k |-> the sink]
updateProgress(b, newProgress, newStatus) ==
    LET u1 == [b.u EXCEPT !.progress = newProgress, !.status = newStatus]
    IN  [u |-> u1,
         k |-> IF u1.onProgress # "none"
               THEN onProgress(u1.onProgress, b.k,
                               [progress |-> u1.progress, status |-> u1.status,
                                uploadedInfo |-> u1.uploadedInfo])
               ELSE b.k]

errorMessage(error) == IF error.isError THEN error.message ELSE "Unknown error"

\* the catch block of uploadFile
catchUpload(b, error) ==
    updateProgress(b, 0, Status("failed", errorMessage(error)))

\* an orchestrator whose uploadedInfo is shared by the invocations in flight
Bundle_shared(c) ==
    LET others == { d \in Calls \ {c} : InFlight(d) /\ up[d].uploadedInfo # NullInfo }
    IN  [u |-> IF others = {} THEN up[c]
               ELSE [up[c] EXCEPT !.uploadedInfo = up[CHOOSE d \in others : TRUE].uploadedInfo],
         k |-> sink[c]]

Bundle(c) == [u |-> up[c], k |-> sink[c]]

Settle(c, b, r) ==
    /\ up' = [up EXCEPT ![c] = b.u]
    /\ sink' = [sink EXCEPT ![c] = b.k]
    /\ ret' = [ret EXCEPT ![c] = r]
    /\ pc' = [pc EXCEPT ![c] = "uploadSettled"]
    /\ cbLeft' = [cbLeft EXCEPT ![c] = 0]
    /\ Keep(c)

\* an orchestrator that looks the backend instance up again at every step
Continue_rereads(c, b, nextPc) ==
    /\ up' = [up EXCEPT ![c] = b.u]
    /\ sink' = [sink EXCEPT ![c] = b.k]
    /\ pc' = [pc EXCEPT ![c] = nextPc]
    /\ InvokeOn(c, nextPc, synapseInstance)

\* uploadFile goes on to its next backend call, made on the instance it holds
Continue(c, b, nextPc) ==
    /\ up' = [up EXCEPT ![c] = b.u]
    /\ sink' = [sink EXCEPT ![c] = b.k]
    /\ pc' = [pc EXCEPT ![c] = nextPc]
    /\ InvokeOn(c, nextPc, b.u.synapse)

\* callbacks the backend may fire during the upload that starts
CallbackBudget ==
    IF Cardinality(active) > 1 THEN MaxConcurrentCallbacks ELSE MaxCallbacks

\* an uploadFile without the two checks that precede its try block
uploadFile_unchecked(c, fileSize, fileName, options, cached) ==
    LET u0 == [NoUpload EXCEPT !.synapse = IF options.synapse # NoInstance
                                           THEN options.synapse ELSE cached,
                               !.address = options.address,
                               !.fileName = fileName,
                               !.fileSize = fileSize,
                               !.onProgress = options.onProgress,
                               !.feeOverride = options.includeDatasetCreationFee]
        b1 == updateProgress([u |-> u0, k |-> << >>], 0, Status("init", ""))
    IN  /\ ret' = [ret EXCEPT ![c] = NoRet]
        /\ cbLeft' = [cbLeft EXCEPT ![c] = CallbackBudget]
        /\ Continue(c, b1, "findDataSets")

\* uploadFile up to its first await: resolve the backend instance (cached is
\* the singleton at the time of the call), check the address, emit the init
\* event and start the dataset lookup
uploadFile(c, fileSize, fileName, options, cached) ==
    LET got == IF options.synapse # NoInstance
               THEN [threw |-> FALSE, value |-> options.synapse]
               ELSE getSynapse(cached)
        u0  == [NoUpload EXCEPT !.address = options.address,
                                !.fileName = fileName,
                                !.fileSize = fileSize,
                                !.onProgress = options.onProgress,
                                !.feeOverride = options.includeDatasetCreationFee]
        b0  == [u |-> u0, k |-> << >>]
    IN  IF got.threw
        THEN Settle(c, b0, Threw(got.error))
        ELSE IF got.value = NoInstance
        THEN Settle(c, b0, Threw(Err("Synapse not initialized. Please initialize Synapse first.")))
        ELSE IF ~Truthy(options.address)
        THEN Settle(c, [b0 EXCEPT !.u.synapse = got.value],
                    Threw(Err("Address is required for file upload")))
        ELSE LET b1 == updateProgress([b0 EXCEPT !.u.synapse = got.value],
                                      0, Status("init", ""))
             IN  /\ ret' = [ret EXCEPT ![c] = NoRet]
                 /\ cbLeft' = [cbLeft EXCEPT ![c] = CallbackBudget]
                 /\ Continue(c, b1, "findDataSets")

NoCall == [caller |-> "none"]

\* the argument of synapse.createStorage: the four callbacks, nothing else
createStorageRequest(u) ==
    [callbacks |-> {"onDataSetResolved", "onDataSetCreationStarted",
                    "onDataSetCreationProgress", "onProviderSelected"}]

\* the arguments of storageService.upload: the bytes and three callbacks
uploadRequest(u) ==
    [bytes |-> u.fileSize,
     callbacks |-> {"onUploadComplete", "onPieceAdded", "onPieceConfirmed"}]

\* a direct call of the exported uploadFile
DirectUpload(c) ==
    /\ c \in active
    /\ pc[c] \in {"idle", "uploadSettled"}
    /\ \E fileSize \in FileSizes, fileName \in FileNames,
          syn \in {NoInstance, ExternalInstance},
          address \in {EmptyString, WalletAddress},
          sinkKind \in {"none", "recorder"},
          fee \in {NoBool, Bool(TRUE), Bool(FALSE)} :
            uploadFile(c, fileSize, fileName,
                       [synapse |-> syn, address |-> address,
                        onProgress |-> sinkKind,
                        includeDatasetCreationFee |-> fee],
                       synapseInstance)
    /\ call' = [call EXCEPT ![c] = [caller |-> "direct"]]
    /\ UNCHANGED << cacheVars, ledgerVars, datasetExists, active, result >>

\* synapse.storage.findDataSets(address) resolves
FindDataSetsResolves(c) ==
    /\ pc[c] = "findDataSets"
    /\ LET exists == datasetExists
           fee == IF up[c].feeOverride # NoBool THEN up[c].feeOverride ELSE Bool(~exists)
           b1  == [Bundle(c) EXCEPT !.u.includeDatasetCreationFee = fee]
           b2  == updateProgress(b1, 5, Status("allowance", ""))
           b3  == updateProgress(b2, 25, Status("setup", ""))
       IN  Continue(c, b3, "createStorage")
    /\ UNCHANGED << cacheVars, ledgerVars, datasetExists, active, call, result,
                    cbLeft, ret >>

\* an orchestrator that starts over when a backend call rejects
BackendRejects_retries(c) ==
    /\ InFlight(c)
    /\ \E error \in BackendErrors :
          Continue(c, catchUpload(Bundle(c), error), "findDataSets")
    /\ UNCHANGED << cacheVars, ledgerVars, datasetExists, active, call, result,
                    cbLeft, ret >>

\* an awaited backend call of uploadFile rejects: the catch block
BackendRejects(c) ==
    /\ InFlight(c)
    /\ \E error \in BackendErrors :
          Settle(c, catchUpload(Bundle(c), error), Threw(error))
    /\ UNCHANGED << cacheVars, ledgerVars, datasetExists, active, call, result >>

\* the backend invokes one of the callbacks it was given
Callback(c, b, confirmed) ==
    /\ cbLeft[c] > 0
    /\ cbLeft' = [cbLeft EXCEPT ![c] = cbLeft[c] - 1]
    /\ up' = [up EXCEPT ![c] = b.u]
    /\ sink' = [sink EXCEPT ![c] = b.k]
    /\ hist' = [hist EXCEPT ![c].confirmed = confirmed]
    /\ UNCHANGED << cacheVars, ledgerVars, datasetExists, active, call, result,
                    pc, ret >>

Fire(c, b) == Callback(c, b, hist[c].confirmed)

onDataSetResolved(c) ==
    /\ pc[c] = "createStorage"
    /\ Fire(c, updateProgress(Bundle(c), 30, Status("resolved", "")))

onDataSetCreationStarted(c) ==
    /\ pc[c] = "createStorage"
    /\ Fire(c, updateProgress(Bundle(c), 35, Status("creating", "")))

onDataSetCreationProgress(c) ==
    /\ pc[c] = "createStorage"
    /\ \E transactionSuccess \in BOOLEAN, serverConfirmed \in BOOLEAN :
          LET b1 == IF transactionSuccess
                    THEN updateProgress(Bundle(c), 45, Status("txConfirmed", ""))
                    ELSE Bundle(c)
              b2 == IF serverConfirmed
                    THEN updateProgress(b1, 50, Status("ready", ""))
                    ELSE b1
          IN  Fire(c, b2)

onProviderSelected(c) ==
    /\ pc[c] = "createStorage"
    /\ Fire(c, updateProgress(Bundle(c), up[c].progress, Status("provider", "")))

\* synapse.createStorage(...) resolves
CreateStorageResolves(c) ==
    /\ pc[c] = "createStorage"
    /\ Continue(c, updateProgress(Bundle(c), 55, Status("uploading", "")), "upload")
    /\ datasetExists' = TRUE
    /\ UNCHANGED << cacheVars, ledgerVars, active, call, result, cbLeft, ret >>

onUploadComplete(c) ==
    /\ pc[c] = "upload"
    /\ \E piece \in Cids :
          Fire(c, updateProgress([Bundle(c) EXCEPT !.u.uploadedInfo =
                                     [fileName |-> up[c].fileName,
                                      fileSize |-> up[c].fileSize,
                                      pieceCid |-> piece]],
                                 80, Status("uploaded", "")))

\* a piece-added callback that moves the percentage
onPieceAdded_advances(c) ==
    /\ pc[c] = "upload"
    /\ \E transactionResponse \in {NoTransaction} \cup TxHashes :
          LET txHashMsg == IF transactionResponse # NoTransaction
                           THEN transactionResponse ELSE ""
              b1 == updateProgress(Bundle(c), 85, Status("waiting", txHashMsg))
              b2 == IF transactionResponse # NoTransaction
                    THEN [b1 EXCEPT !.u.uploadedInfo =
                             Merge(b1.u.uploadedInfo, [txHash |-> transactionResponse])]
                    ELSE b1
          IN  Fire(c, b2)

onPieceAdded(c) ==
    /\ pc[c] = "upload"
    /\ \E transactionResponse \in {NoTransaction} \cup TxHashes :
          LET txHashMsg == IF transactionResponse # NoTransaction
                           THEN transactionResponse ELSE ""
              b1 == updateProgress(Bundle(c), up[c].progress,
                                   Status("waiting", txHashMsg))
              b2 == IF transactionResponse # NoTransaction
                    THEN [b1 EXCEPT !.u.uploadedInfo =
                             Merge(b1.u.uploadedInfo, [txHash |-> transactionResponse])]
                    ELSE b1
          IN  Fire(c, b2)

onPieceConfirmed(c) ==
    /\ pc[c] = "upload"
    /\ Callback(c, updateProgress(Bundle(c), 90, Status("confirmed", "")), TRUE)

\* storageService.upload(...) resolves with { pieceCid }
UploadResolves(c) ==
    /\ pc[c] = "upload"
    /\ \E pieceCid \in Cids :
          LET finalInfo == Merge([fileName |-> up[c].fileName,
                                  fileSize |-> up[c].fileSize,
                                  pieceCid |-> pieceCid],
                                 up[c].uploadedInfo)
              b1 == updateProgress([Bundle(c) EXCEPT !.u.uploadedInfo = finalInfo],
                                   100, Status("done", ""))
          IN  Settle(c, b1, Returned(finalInfo))
    /\ UNCHANGED << cacheVars, ledgerVars, datasetExists, active, call, result >>

UploadSteps(c) ==
    \/ FindDataSetsResolves(c)
    \/ BackendRejects(c)
    \/ onDataSetResolved(c)
    \/ onDataSetCreationStarted(c)
    \/ onDataSetCreationProgress(c)
    \/ onProviderSelected(c)
    \/ CreateStorageResolves(c)
    \/ onUploadComplete(c)
    \/ onPieceAdded(c)
    \/ onPieceConfirmed(c)
    \/ UploadResolves(c)

\* ------------------------------------------------------ utils/ownership.ts
lower(ch) ==
    CASE ch = "A" -> "a" [] ch = "B" -> "b" [] ch = "C" -> "c" [] ch = "D" -> "d"
      [] ch = "Q" -> "q" [] ch = "R" -> "r" [] ch = "T" -> "t" [] OTHER -> ch

toLowerCase(s) == [i \in DOMAIN s |-> lower(s[i])]

LedgerErrors == { Err("ledger error") }

\* contract.ownerOf(tokenId) as the ledger may settle it: it reverts for a
\* token that was never minted, and any call may fail
OwnerOfAnswers(tokenId) ==
    { [ok |-> FALSE, error |-> e] : e \in LedgerErrors }
        \cup (IF tokenId \in FolderIds /\ owners[tokenId] # Undefined
              THEN { [ok |-> TRUE, owner |-> owners[tokenId]] }
              ELSE {})

\* a gate that grants when the lookup failed
validateOwnership_failOpen(ownerOf, userAddress) ==
    IF ownerOf.ok
    THEN LET checkAddress == IF Truthy(userAddress) THEN userAddress ELSE WalletAddress
         IN  [threw |-> FALSE,
              value |-> toLowerCase(ownerOf.owner) = toLowerCase(checkAddress)]
    ELSE [threw |-> FALSE, value |-> TRUE]

\* a gate without the catch block: the lookup's error escapes
validateOwnership_throws(ownerOf, userAddress) ==
    IF ownerOf.ok
    THEN LET checkAddress == IF Truthy(userAddress) THEN userAddress ELSE WalletAddress
         IN  [threw |-> FALSE,
              value |-> toLowerCase(ownerOf.owner) = toLowerCase(checkAddress)]
    ELSE [threw |-> TRUE, error |-> ownerOf.error]

\* a gate that compares the addresses as written
validateOwnership_caseSensitive(ownerOf, userAddress) ==
    IF ownerOf.ok
    THEN LET checkAddress == IF Truthy(userAddress) THEN userAddress ELSE WalletAddress
         IN  [threw |-> FALSE, value |-> ownerOf.owner = checkAddress]
    ELSE [threw |-> FALSE, value |-> FALSE]

\* validateOwnership from the settled ownerOf on: what it returns or throws
validateOwnership(ownerOf, userAddress) ==
    IF ownerOf.ok
    THEN LET checkAddress == IF Truthy(userAddress) THEN userAddress ELSE WalletAddress
         IN  [threw |-> FALSE,
              value |-> toLowerCase(ownerOf.owner) = toLowerCase(checkAddress)]
    ELSE [threw |-> FALSE, value |-> FALSE]

\* ------------------------------------------------------------- schemas.ts
IsString(v) == v # Undefined /\ v # BadType
OptionalString(v) == v # BadType
ZodError == Err("ZodError")

uploadFileSchema(args) ==
    /\ OptionalString(args.filePath)
    /\ OptionalString(args.fileContent)
    /\ OptionalString(args.fileName)
    /\ IsString(args.folderId) /\ Len(args.folderId) >= 1
    /\ Truthy(args.filePath) \/ Truthy(args.fileContent)

createFolderSchema(args) ==
    /\ IsString(args.name) /\ Len(args.name) >= 1
    /\ args.folderType \in {Undefined, <<"p">>, <<"w">>, <<"a">>}

\* list_folders, get_folder_info, list_files, search_files_by_tag,
\* get_storage_balance and search_files_by_prompt
readSchema(name, args) ==
    CASE name \in {"list_folders", "get_storage_balance"} -> OptionalString(args.userAddress)
      [] name \in {"get_folder_info", "list_files"} ->
            IsString(args.folderId) /\ Len(args.folderId) >= 1
      [] name = "search_files_by_tag" -> IsString(args.tag) /\ Len(args.tag) >= 1
      [] name = "search_files_by_prompt" ->
            /\ IsString(args.prompt) /\ Len(args.prompt) >= 1
            /\ OptionalString(args.folderId)

\* ------------------------------------------------------------ handlers.ts
LedgerReadTools ==
    {"list_folders", "get_folder_info", "list_files", "search_files_by_tag",
     "get_storage_balance"}
ToolNames == {"create_folder", "upload_file", "search_files_by_prompt"} \cup LedgerReadTools
UnknownToolName == "no_such_tool"

\* the argument payloads a client sends with each operation name
Arguments(name) ==
    CASE name = "upload_file" ->
            \* from the client's bytes, into any folder or none
            [filePath : {Undefined},
             fileContent : FileContents,
             fileName : {Undefined, <<"a", ".", "T">>},
             folderId : {Undefined, EmptyString, BadType, <<"1">>, <<"2">>, <<"9">>}]
            \* from a local path (or from nothing), into folder 1
            \cup [filePath : {Undefined} \cup FilePaths,
                  fileContent : {Undefined, EmptyString, BadType},
                  fileName : {Undefined},
                  folderId : {<<"1">>}]
      [] name = "create_folder" ->
            [name : {EmptyString, <<"n">>}, folderType : {Undefined, <<"w">>, <<"x">>}]
      [] name \in {"list_folders", "get_storage_balance"} ->
            [userAddress : {Undefined, BadType, OtherAddress}]
      [] name \in {"get_folder_info", "list_files"} ->
            [folderId : {Undefined, <<"1">>}]
      [] name = "search_files_by_tag" -> [tag : {EmptyString, <<"t">>}]
      [] name = "search_files_by_prompt" ->
            [prompt : {EmptyString, <<"q">>}, folderId : {Undefined}]
      [] OTHER -> [folderId : {<<"1">>}]

NotOwnerMessage == "You don't own this folder or folder doesn't exist"

\* a dispatcher whose catch block rethrows
dispatchCatch_rethrows(name, args, error) ==
    [kind |-> "exception", error |-> error]

\* the catch block of handleToolCall
dispatchCatch(name, args, error) ==
    [kind |-> "result",
     payload |-> [success |-> FALSE, error |-> errorMessage(error),
                  tool |-> name, arguments |-> args]]

NoResult == [kind |-> "none"]

\* a handler throws: handleToolCall's promise resolves with the envelope
Reject(c, frame, error) ==
    /\ pc' = [pc EXCEPT ![c] = "done"]
    /\ call' = [call EXCEPT ![c] = frame]
    /\ result' = [result EXCEPT ![c] = dispatchCatch(frame.name, frame.args, error)]
    /\ Keep(c)

\* a handler returns { content: [response] }
Return(c, frame, payload) ==
    /\ pc' = [pc EXCEPT ![c] = "done"]
    /\ call' = [call EXCEPT ![c] = frame]
    /\ result' = [result EXCEPT ![c] = [kind |-> "result", payload |-> payload]]
    /\ Keep(c)

\* a handler suspends at an await
Await(c, frame, at) ==
    /\ pc' = [pc EXCEPT ![c] = at]
    /\ call' = [call EXCEPT ![c] = frame]
    /\ result' = [result EXCEPT ![c] = NoResult]
    /\ Invoke(c, at)

\* Buffer.from(fileContent, 'base64').length
Base64Length(s) == (Cardinality({ i \in DOMAIN s : s[i] # "=" }) * 3) \div 4

\* path.basename
basename(path) ==
    LET slashes == { i \in DOMAIN path : path[i] = "/" }
        from == IF slashes = {} THEN 0
                ELSE CHOOSE i \in slashes : \A j \in slashes : j <= i
    IN  SubSeq(path, from + 1, Len(path))

ProvenanceTag == <<"uploaded-via-mcp">>

\* finalFileName.split('.').pop()?.toLowerCase() || ""
extension(finalFileName) ==
    LET dots == { i \in DOMAIN finalFileName : finalFileName[i] = "." }
        from == IF dots = {} THEN 0
                ELSE CHOOSE i \in dots : \A j \in dots : j <= i
    IN  toLowerCase(SubSeq(finalFileName, from + 1, Len(finalFileName)))

ForgetUpload(c) ==
    /\ up' = [up EXCEPT ![c] = NoUpload]
    /\ sink' = [sink EXCEPT ![c] = << >>]
    /\ cbLeft' = [cbLeft EXCEPT ![c] = 0]
    /\ ret' = [ret EXCEPT ![c] = NoRet]

\* a handler that starts the backend before it looks at fileName
handleUploadFile_lateCheck(c, frame) ==
    LET args == frame.args
    IN  IF ~uploadFileSchema(args)
        THEN Reject(c, frame, ZodError)
        ELSE IF Truthy(args.fileContent)
        THEN Await(c, [name |-> frame.name, args |-> args, caller |-> frame.caller,
                       finalFileName |-> args.fileName,
                       fileSize |-> Base64Length(args.fileContent)],
                   "synapseCreate")
        ELSE Await(c, frame, "readFile")

\* handleUploadFile up to its first await
handleUploadFile(c, frame) ==
    LET args == frame.args
    IN  IF ~uploadFileSchema(args)
        THEN Reject(c, frame, ZodError)
        ELSE IF Truthy(args.fileContent)
        THEN IF ~Truthy(args.fileName)
             THEN Reject(c, frame, Err("fileName is required when using fileContent"))
             ELSE Await(c, [name |-> frame.name, args |-> args, caller |-> frame.caller,
                            finalFileName |-> args.fileName,
                            fileSize |-> Base64Length(args.fileContent)],
                        "synapseCreate")
        ELSE IF Truthy(args.filePath)
        THEN Await(c, frame, "readFile")
        ELSE Reject(c, frame, Err("Either filePath or fileContent must be provided"))

handleCreateFolder(c, frame) ==
    IF ~createFolderSchema(frame.args)
    THEN Reject(c, frame, ZodError)
    ELSE Await(c, frame, "mintFolder")

\* the handlers that read the ledger or the chain, and the search handler
handleRead(c, frame) ==
    IF ~readSchema(frame.name, frame.args)
    THEN Reject(c, frame, ZodError)
    ELSE Await(c, frame, IF frame.name = "search_files_by_prompt" THEN "search" ELSE "ledgerRead")

\* handleToolCall: the switch, and each handler up to its first await
handleToolCall(c) ==
    /\ c \in active
    /\ pc[c] \in {"idle", "done"}
    /\ \E name \in ToolNames \cup {UnknownToolName} :
         \E args \in Arguments(name) :
            LET frame == [caller |-> "dispatch", name |-> name, args |-> args]
            IN  CASE name = "upload_file" -> handleUploadFile(c, frame)
                  [] name = "create_folder" -> handleCreateFolder(c, frame)
                  [] name \in LedgerReadTools \cup {"search_files_by_prompt"} ->
                        handleRead(c, frame)
                  [] OTHER -> Reject(c, frame, Err("Unknown tool"))
    /\ ForgetUpload(c)
    /\ UNCHANGED << cacheVars, ledgerVars, datasetExists, active >>

Dispatched(c) == call[c].caller = "dispatch"

\* readFile(filePath) settles
ReadFileSettles(c) ==
    /\ pc[c] = "readFile"
    /\ \/ Reject(c, call[c], Err("ENOENT"))
       \/ \E size \in FileSizes :
             Await(c, [name |-> call[c].name, args |-> call[c].args,
                       caller |-> call[c].caller,
                       finalFileName |-> basename(call[c].args.filePath),
                       fileSize |-> size],
                   "synapseCreate")
    /\ UNCHANGED << cacheVars, ledgerVars, datasetExists, active, uploadVars >>

\* the handler's call of uploadFile, once initializeSynapseFromEnv settled;
\* a failure of the initialization has been caught and written to stderr
HandlerUpload(c, cached, initFailed) ==
    /\ uploadFile(c, call[c].fileSize, call[c].finalFileName,
                  [synapse |-> NoInstance, address |-> WalletAddress,
                   onProgress |-> "console", includeDatasetCreationFee |-> NoBool],
                  cached)
    /\ call' = [call EXCEPT ![c] = Merge(@, [initFailed |-> initFailed])]
    /\ UNCHANGED result

\* the catch block of initializeSynapse: the error is wrapped and rethrown
initializeSynapseCatch(error) ==
    Err(IF error.isError
        THEN "Synapse initialization failed: backend error"
        ELSE "Synapse initialization failed: raw")

\* a direct call of the exported initializeSynapse, up to `await Synapse.create`
initializeSynapse(c) ==
    /\ c \in active
    /\ pc[c] \in {"idle", "done", "uploadSettled"}
    /\ pc[c] = "uploadSettled" => call[c].caller = "direct"
    /\ Await(c, [caller |-> "init"], "synapseCreate")
    /\ ForgetUpload(c)
    /\ UNCHANGED << cacheVars, ledgerVars, datasetExists, active >>

\* a direct call of the exported resetSynapseInstances
resetSynapseInstances ==
    /\ synapseInstance' = NoInstance
    /\ warmStorageServiceInstance' = NoInstance
    /\ UNCHANGED << ledgerVars, datasetExists, active, pc, call, result,
                    uploadVars, hist >>

\* initializeSynapse throws to a direct caller
InitThrows(c, error) ==
    /\ pc' = [pc EXCEPT ![c] = "done"]
    /\ result' = [result EXCEPT ![c] = [kind |-> "threw",
                                        error |-> initializeSynapseCatch(error)]]
    /\ Keep(c)
    /\ UNCHANGED << call, uploadVars >>

\* initializeSynapse returns { synapse, warmStorageService } to a direct caller
InitReturns(c, synapse, warmStorageService) ==
    /\ pc' = [pc EXCEPT ![c] = "done"]
    /\ result' = [result EXCEPT ![c] =
                      [kind |-> "returned",
                       value |-> [synapse |-> synapse,
                                  warmStorageService |-> warmStorageService]]]
    /\ Keep(c)
    /\ UNCHANGED << call, uploadVars >>

\* an initializeSynapse that publishes the backend instance as soon as it
\* is created, before the warm-storage service exists
SynapseCreateSettles_publishesEarly(c) ==
    /\ pc[c] = "synapseCreate"
    /\ \/ /\ pc' = [pc EXCEPT ![c] = "warmStorageCreate"]
          /\ call' = [call EXCEPT ![c] = Merge(@, [synapse |-> FreshInstance])]
          /\ Invoke(c, "warmStorageCreate")
          /\ synapseInstance' = FreshInstance
          /\ UNCHANGED << warmStorageServiceInstance, result, uploadVars >>
       \/ /\ Dispatched(c)
          /\ HandlerUpload(c, synapseInstance, TRUE)
          /\ UNCHANGED cacheVars
       \/ /\ ~Dispatched(c)
          /\ \E error \in BackendErrors : InitThrows(c, error)
          /\ UNCHANGED cacheVars
    /\ UNCHANGED << ledgerVars, datasetExists, active >>

\* a handler that lets a failed initialization end the call
SynapseCreateSettles_reportsFailure(c) ==
    /\ pc[c] = "synapseCreate"
    /\ \/ /\ pc' = [pc EXCEPT ![c] = "warmStorageCreate"]
          /\ call' = [call EXCEPT ![c] = Merge(@, [synapse |-> FreshInstance])]
          /\ Invoke(c, "warmStorageCreate")
          /\ UNCHANGED << result, uploadVars >>
       \/ /\ Dispatched(c)
          /\ \E error \in BackendErrors :
                Reject(c, Merge(call[c], [initFailed |-> TRUE]),
                       initializeSynapseCatch(error))
          /\ UNCHANGED uploadVars
       \/ /\ ~Dispatched(c)
          /\ \E error \in BackendErrors : InitThrows(c, error)
    /\ UNCHANGED << cacheVars, ledgerVars, datasetExists, active >>

\* initializeSynapse: Synapse.create settles. The instance it resolves with
\* is a local of the call. A rejection is wrapped and rethrown; handleUploadFile
\* catches and ignores it and goes on to uploadFile
SynapseCreateSettles(c) ==
    /\ pc[c] = "synapseCreate"
    /\ \/ /\ pc' = [pc EXCEPT ![c] = "warmStorageCreate"]
          /\ call' = [call EXCEPT ![c] = Merge(@, [synapse |-> FreshInstance])]
          /\ Invoke(c, "warmStorageCreate")
          /\ UNCHANGED << result, uploadVars >>
       \/ /\ Dispatched(c)
          /\ HandlerUpload(c, synapseInstance, TRUE)
       \/ /\ ~Dispatched(c)
          /\ \E error \in BackendErrors : InitThrows(c, error)
    /\ UNCHANGED << cacheVars, ledgerVars, datasetExists, active >>

\* an initializeSynapse that clears the cached session when the creation of
\* the warm-storage service fails
WarmStorageCreateSettles_clearsOnFailure(c) ==
    /\ pc[c] = "warmStorageCreate"
    /\ \/ /\ synapseInstance' = call[c].synapse
          /\ warmStorageServiceInstance' = call[c].synapse
          /\ IF Dispatched(c)
             THEN HandlerUpload(c, call[c].synapse, FALSE)
             ELSE InitReturns(c, call[c].synapse, call[c].synapse)
       \/ /\ synapseInstance' = NoInstance
          /\ warmStorageServiceInstance' = NoInstance
          /\ IF Dispatched(c)
             THEN HandlerUpload(c, NoInstance, TRUE)
             ELSE \E error \in BackendErrors : InitThrows(c, error)
    /\ UNCHANGED << ledgerVars, datasetExists, active >>

\* initializeSynapse: WarmStorageService.create(synapse.getProvider(), ...)
\* settles. The service belongs to the instance it was created from and is
\* identified by it. On success the two singletons are assigned together,
\* with no await in between; on failure neither is touched
WarmStorageCreateSettles(c) ==
    /\ pc[c] = "warmStorageCreate"
    /\ \/ /\ synapseInstance' = call[c].synapse
          /\ warmStorageServiceInstance' = call[c].synapse
          /\ IF Dispatched(c)
             THEN HandlerUpload(c, call[c].synapse, FALSE)
             ELSE InitReturns(c, call[c].synapse, call[c].synapse)
       \/ /\ UNCHANGED cacheVars
          /\ IF Dispatched(c)
             THEN HandlerUpload(c, synapseInstance, TRUE)
             ELSE \E error \in BackendErrors : InitThrows(c, error)
    /\ UNCHANGED << ledgerVars, datasetExists, active >>

SuccessPayload(c) ==
    LET folderId == call[c].args.folderId
    IN  [success |-> TRUE,
         fileName |-> call[c].finalFileName,
         fileSize |-> call[c].fileSize,
         pieceCid |-> ret[c].value.pieceCid,
         txHash |-> IF "txHash" \in DOMAIN ret[c].value
                    THEN ret[c].value.txHash ELSE NoTransaction,
         addedToFolder |-> Truthy(folderId),
         folderId |-> IF Truthy(folderId) THEN folderId ELSE EmptyString]

\* a handler that asks for the owner whether or not the upload succeeded
AfterUpload_gateAnyway(c) ==
    /\ pc[c] = "uploadSettled"
    /\ Dispatched(c)
    /\ IF Truthy(call[c].args.folderId)
       THEN Await(c, Merge(call[c], [tokenId |-> call[c].args.folderId,
                                     userAddress |-> Undefined]),
                  "ownerOf")
       ELSE IF ret[c].kind = "threw"
       THEN Reject(c, call[c], ret[c].error)
       ELSE Return(c, call[c], SuccessPayload(c))
    /\ UNCHANGED << cacheVars, ledgerVars, datasetExists, active, uploadVars >>

\* handleUploadFile resumes after `await uploadFile(...)`
AfterUpload(c) ==
    /\ pc[c] = "uploadSettled"
    /\ Dispatched(c)
    /\ IF ret[c].kind = "threw"
       THEN Reject(c, call[c], ret[c].error)
       ELSE IF Truthy(call[c].args.folderId)
       THEN Await(c, Merge(call[c], [tokenId |-> call[c].args.folderId,
                                     userAddress |-> Undefined]),
                  "ownerOf")
       ELSE Return(c, call[c], SuccessPayload(c))
    /\ UNCHANGED << cacheVars, ledgerVars, datasetExists, active, uploadVars >>

\* a direct call of the exported validateOwnership
DirectValidateOwnership(c) ==
    /\ c \in active
    /\ pc[c] \in {"idle", "done"}
    /\ \E tokenId \in FolderIds, userAddress \in {Undefined, EmptyString} \cup Addresses :
          Await(c, [caller |-> "gate", tokenId |-> tokenId, userAddress |-> userAddress],
                "ownerOf")
    /\ ForgetUpload(c)
    /\ UNCHANGED << cacheVars, ledgerVars, datasetExists, active >>

\* contract.ownerOf settles inside validateOwnership; handleUploadFile goes
\* on to contract.addFile when the gate returned true
OwnerOfSettles(c) ==
    /\ pc[c] = "ownerOf"
    /\ \E answer \in OwnerOfAnswers(call[c].tokenId) :
          LET gate == validateOwnership(answer, call[c].userAddress)
              frame == Merge(call[c], [ownerOf |-> answer, gate |-> gate])
          IN  IF call[c].caller = "gate"
              THEN Return(c, frame, gate)
              ELSE IF gate.threw
              THEN Reject(c, frame, gate.error)
              ELSE IF ~gate.value
              THEN Reject(c, frame, Err(NotOwnerMessage))
              ELSE Await(c, Merge(frame, [tags |-> << extension(call[c].finalFileName),
                                                      ProvenanceTag >>]),
                         "addFile")
    /\ UNCHANGED << cacheVars, ledgerVars, datasetExists, active, uploadVars >>

\* contract.addFile(folderId, pieceCid, finalFileName, tags) settles
AddFileSettles(c) ==
    /\ pc[c] = "addFile"
    /\ \/ \E e \in LedgerErrors : Reject(c, call[c], e)
       \/ Await(c, call[c], "txWait")
    /\ UNCHANGED << cacheVars, ledgerVars, datasetExists, active, uploadVars >>

TotalFiles == LET Sum[S \in SUBSET FolderIds] ==
                      IF S = {} THEN 0
                      ELSE LET f == CHOOSE x \in S : TRUE
                           IN  Len(files[f]) + Sum[S \ {f}]
              IN  Sum[FolderIds]

\* a registry that ignores a record it already holds
TxWaitSettles_idempotent(c) ==
    /\ pc[c] = "txWait"
    /\ \/ /\ \E e \in LedgerErrors : Reject(c, call[c], e)
          /\ UNCHANGED files
       \/ /\ TotalFiles < MaxFiles
          /\ LET f == call[c].args.folderId
                 record == [cid |-> ret[c].value.pieceCid,
                            filename |-> call[c].finalFileName,
                            tags |-> call[c].tags]
             IN  files' = IF \E i \in DOMAIN files[f] : files[f][i] = record
                          THEN files
                          ELSE [files EXCEPT ![f] = Append(@, record)]
          /\ Return(c, call[c], SuccessPayload(c))
    /\ UNCHANGED << cacheVars, owners, datasetExists, active, uploadVars >>

\* tx.wait() settles: mined, the file record is in the folder
TxWaitSettles(c) ==
    /\ pc[c] = "txWait"
    /\ \/ /\ \E e \in LedgerErrors : Reject(c, call[c], e)
          /\ UNCHANGED files
       \/ /\ TotalFiles < MaxFiles
          /\ files' = [files EXCEPT ![call[c].args.folderId] =
                          Append(@, [cid |-> ret[c].value.pieceCid,
                                     filename |-> call[c].finalFileName,
                                     tags |-> call[c].tags])]
          /\ Return(c, call[c], SuccessPayload(c))
    /\ UNCHANGED << cacheVars, owners, datasetExists, active, uploadVars >>

\* contract.mintFolder(folderName, folderType) settles
MintFolderSettles(c) ==
    /\ pc[c] = "mintFolder"
    /\ \/ \E e \in LedgerErrors : Reject(c, call[c], e)
       \/ Await(c, call[c], "mintWait")
    /\ UNCHANGED << cacheVars, ledgerVars, datasetExists, active, uploadVars >>

Unminted == { f \in FolderIds : owners[f] = Undefined }

\* tx.wait() of the mint settles; the FolderMinted event may be missing
\* from the receipt
MintWaitSettles(c) ==
    /\ pc[c] = "mintWait"
    /\ \/ /\ \E e \in LedgerErrors : Reject(c, call[c], e)
          /\ UNCHANGED owners
       \/ /\ Unminted # {}
          /\ LET id == CHOOSE f \in Unminted : TRUE
             IN  /\ owners' = [owners EXCEPT ![id] = WalletAddress]
                 /\ \E tokenId \in {id, Undefined} :
                       Return(c, call[c],
                              [success |-> TRUE, tokenId |-> tokenId,
                               folderName |-> call[c].args.name,
                               folderType |-> IF call[c].args.folderType = Undefined
                                              THEN <<"p">>
                                              ELSE call[c].args.folderType])
    /\ UNCHANGED << cacheVars, files, datasetExists, active, uploadVars >>

\* the ledger or chain read of a read-only handler settles
LedgerReadSettles(c) ==
    /\ pc[c] = "ledgerRead"
    /\ \/ \E e \in LedgerErrors : Reject(c, call[c], e)
       \/ Return(c, call[c],
                 IF call[c].name \in {"get_folder_info", "list_files"}
                 THEN [success |-> TRUE, files |-> files[call[c].args.folderId]]
                 ELSE [success |-> TRUE])
    /\ UNCHANGED << cacheVars, ledgerVars, datasetExists, active, uploadVars >>

\* what axios.post(AI_SERVICE_URL/search) settles with: a response, no
\* connection, or an error status
SearchAnswers ==
    { [ok |-> TRUE] }
        \cup { [ok |-> FALSE, error |-> Err(m)] :
                   m \in {"ECONNREFUSED", "Request failed with status code 500"} }

\* a search handler without its catch block
searchCatch_rethrows(error) == [kind |-> "throw", error |-> error]

\* the catch block of handleSearchByPromptFiles
searchCatch(error) ==
    [kind |-> "result",
     payload |-> [success |-> FALSE, error |-> "AI service unavailable"]]

\* axios.post(AI_SERVICE_URL/search) settles inside handleSearchByPromptFiles
SearchSettles(c) ==
    /\ pc[c] = "search"
    /\ \E answer \in SearchAnswers :
          LET frame == Merge(call[c], [search |-> answer])
          IN  IF answer.ok
              THEN Return(c, frame, [success |-> TRUE, query |-> call[c].args.prompt])
              ELSE LET caught == searchCatch(answer.error)
                   IN  IF caught.kind = "result"
                       THEN Return(c, frame, caught.payload)
                       ELSE Reject(c, frame, caught.error)
    /\ UNCHANGED << cacheVars, ledgerVars, datasetExists, active, uploadVars >>

\* --------------------------------------------------------- specifications
InitCache ==
    /\ synapseInstance = NoInstance
    /\ warmStorageServiceInstance = NoInstance

InitCalls ==
    /\ datasetExists = FALSE
    /\ files = [f \in FolderIds |-> << >>]
    /\ pc = [c \in Calls |-> "idle"]
    /\ call = [c \in Calls |-> NoCall]
    /\ result = [c \in Calls |-> NoResult]
    /\ up = [c \in Calls |-> NoUpload]
    /\ sink = [c \in Calls |-> << >>]
    /\ cbLeft = [c \in Calls |-> 0]
    /\ ret = [c \in Calls |-> NoRet]
    /\ hist = [c \in Calls |-> NoHist]

InitCommon == InitCache /\ InitCalls

InitLedger ==
    owners = [f \in FolderIds |->
                 IF f = <<"1">> THEN WalletAddressLower
                 ELSE IF f = <<"2">> THEN OtherAddress ELSE Undefined]

\* uploadFile is called before or after an initializeSynapse that completed
InitUpload ==
    /\ \E i \in {NoInstance, 1} :
          /\ synapseInstance = i
          /\ warmStorageServiceInstance = i
    /\ InitCalls
    /\ InitLedger
    /\ active = {1}

NextUpload ==
    \/ \E c \in Calls : DirectUpload(c)
    \/ \E c \in Calls : UploadSteps(c)

\* direct calls of the exported uploadFile, one at a time
SpecUpload == InitUpload /\ [][NextUpload]_vars

Init ==
    /\ InitCommon
    /\ InitLedger
    /\ active = {1}

Next ==
    \/ \E c \in Calls : handleToolCall(c)
    \/ \E c \in Calls : ReadFileSettles(c)
    \/ \E c \in Calls : SynapseCreateSettles(c)
    \/ \E c \in Calls : WarmStorageCreateSettles(c)
    \/ \E c \in Calls : UploadSteps(c)
    \/ \E c \in Calls : AfterUpload(c)
    \/ \E c \in Calls : OwnerOfSettles(c)
    \/ \E c \in Calls : AddFileSettles(c)
    \/ \E c \in Calls : TxWaitSettles(c)
    \/ \E c \in Calls : MintFolderSettles(c)
    \/ \E c \in Calls : MintWaitSettles(c)
    \/ \E c \in Calls : LedgerReadSettles(c)
    \/ \E c \in Calls : SearchSettles(c)

\* the server: tool calls through the dispatcher, one at a time
Spec == Init /\ [][Next]_vars

\* the file each of two overlapping uploads is given
FileNameOf(c) == IF c = 1 THEN <<"a", ".", "T">> ELSE <<"R">>

\* a direct call of uploadFile made while another may be in flight: every
\* call has its own file and its own sink
OverlappingUpload(c) ==
    /\ c \in active
    /\ pc[c] = "idle"
    /\ \E address \in {WalletAddress, OtherAddress}, fileSize \in FileSizes :
          uploadFile(c, fileSize, FileNameOf(c),
                     [synapse |-> ExternalInstance, address |-> address,
                      onProgress |-> "recorder",
                      includeDatasetCreationFee |-> NoBool],
                     synapseInstance)
    /\ call' = [call EXCEPT ![c] = [caller |-> "direct"]]
    /\ UNCHANGED << cacheVars, ledgerVars, datasetExists, active, result >>

InitConcurrent ==
    /\ InitCommon
    /\ InitLedger
    /\ active = Calls

NextConcurrent ==
    \/ \E c \in Calls : OverlappingUpload(c)
    \/ \E c \in Calls : UploadSteps(c)

\* two direct calls of uploadFile, interleaved at their awaits and callbacks
SpecConcurrent == InitConcurrent /\ [][NextConcurrent]_vars

\* a direct call of uploadFile that names no backend instance and so uses
\* the cached one
CachedUpload(c) ==
    /\ c \in active
    /\ pc[c] \in {"idle", "done", "uploadSettled"}
    /\ pc[c] = "uploadSettled" => call[c].caller = "direct"
    /\ \E fileSize \in FileSizes :
          uploadFile(c, fileSize, FileNameOf(c),
                     [synapse |-> NoInstance, address |-> WalletAddress,
                      onProgress |-> "none",
                      includeDatasetCreationFee |-> NoBool],
                     synapseInstance)
    /\ call' = [call EXCEPT ![c] = [caller |-> "direct"]]
    /\ result' = [result EXCEPT ![c] = NoResult]
    /\ UNCHANGED << cacheVars, ledgerVars, datasetExists, active >>

InitSession ==
    /\ InitCommon
    /\ InitLedger
    /\ active = Calls

NextCache ==
    \/ \E c \in Calls : initializeSynapse(c)
    \/ \E c \in Calls : SynapseCreateSettles(c)
    \/ \E c \in Calls : WarmStorageCreateSettles(c)
    \/ resetSynapseInstances
    \/ \E c \in Calls : CachedUpload(c)
    \/ \E c \in Calls : UploadSteps(c)

\* the cached storage session: initializeSynapse, resetSynapseInstances and
\* uploads that use the cached instance, called by two clients at once
SpecCache == InitSession /\ [][NextCache]_vars

InitGate ==
    /\ InitCommon
    /\ owners \in [FolderIds -> Addresses \cup {Undefined}]
    /\ active = {1}

NextGate ==
    \/ \E c \in Calls : DirectValidateOwnership(c)
    \/ \E c \in Calls : OwnerOfSettles(c)

\* direct calls of the exported validateOwnership on any ledger
SpecGate == InitGate /\ [][NextGate]_vars

\* ------------------------------------------------- the orchestrator's sink
\* a direct upload whose every event is recorded
Recorded(c) == call[c].caller = "direct" /\ up[c].onProgress = "recorder"
\* the call got past the two checks that precede the try block
EnteredTry(c) == Recorded(c) /\ up[c].synapse # NoInstance /\ Truthy(up[c].address)
UploadThrew(c) == pc[c] = "uploadSettled" /\ ret[c].kind = "threw"
UploadReturned(c) == pc[c] = "uploadSettled" /\ ret[c].kind = "returned"

IsFailed(ev) == ev.status.label = "failed"
FailedEvents(log) == { i \in DOMAIN log : IsFailed(log[i]) }
Last(log) == log[Len(log)]

NonDecreasing(log) ==
    \A i, j \in DOMAIN log :
        (i < j /\ ~IsFailed(log[i]) /\ ~IsFailed(log[j]))
            => log[i].progress <= log[j].progress

\* C1: for every upload that entered the try block and every sequence of
\* backend callbacks, the progress values delivered before the terminal event
\* never decrease; a successful upload's last event has progress 100; a failed
\* upload delivers exactly one failed event, last, with progress 0.
C1_ProgressContract ==
    \A c \in Calls :
        EnteredTry(c) =>
            /\ NonDecreasing(sink[c])
            /\ UploadReturned(c) =>
                  /\ sink[c] # << >>
                  /\ Last(sink[c]).progress = 100
            /\ UploadThrew(c) =>
                  /\ Cardinality(FailedEvents(sink[c])) = 1
                  /\ IsFailed(Last(sink[c]))
                  /\ Last(sink[c]).progress = 0

\* the phase an event belongs to (spec section 4.2)
PhaseOf(label) ==
    CASE label = "init" -> 1
      [] label = "allowance" -> 2
      [] label \in {"setup", "resolved", "creating", "txConfirmed", "ready", "provider"} -> 3
      [] label \in {"uploading", "uploaded"} -> 4
      [] label = "waiting" -> 5
      [] label = "confirmed" -> 6
      [] label = "done" -> 7
      [] OTHER -> 0

Occurrences(log, label) == Cardinality({ i \in DOMAIN log : log[i].status.label = label })

\* C3: on every successful upload the phases occur in the order init,
\* allowance, session setup, byte transfer (completing at 80), piece
\* registration, confirmed (90), done: none is skipped, none occurs twice and
\* no event of an earlier phase follows an event of a later one.
C3_PhasesInOrder ==
    \A c \in Calls :
        (Recorded(c) /\ UploadReturned(c)) =>
            /\ \A label \in {"init", "allowance", "setup", "uploading", "uploaded",
                             "confirmed", "done"} :
                  Occurrences(sink[c], label) = 1
            /\ \A i, j \in DOMAIN sink[c] :
                  i < j => PhaseOf(sink[c][i].status.label) <= PhaseOf(sink[c][j].status.label)

\* C4: every failed upload call, whatever the point of failure, delivers
\* exactly one final event (0, failed: <reason>, lastKnownInfo) and propagates
\* the failure.
C4_OneTerminalEventOnAnyFailure ==
    \A c \in Calls :
        (Recorded(c) /\ UploadThrew(c)) =>
            /\ Cardinality(FailedEvents(sink[c])) = 1
            /\ Last(sink[c]) = [progress |-> 0,
                                status |-> Status("failed", errorMessage(ret[c].error)),
                                uploadedInfo |-> up[c].uploadedInfo]

\* what the catch block reports for an error: the terminal status and the
\* error it rethrows
FailureReport(error) ==
    LET b == catchUpload([u |-> NoUpload, k |-> << >>], error)
    IN  [progress |-> b.u.progress, status |-> b.u.status, thrown |-> error]

TransferCompleted(c) == "pieceCid" \in DOMAIN up[c].uploadedInfo

\* C7: an upload that fails after its byte transfer completed reports an
\* outcome (terminal status, propagated error) that no failure of the byte
\* transfer or of the backend is reported with.
C7_RegistrationFailureDistinct ==
    \A c \in Calls :
        (call[c].caller = "direct" /\ UploadThrew(c) /\ TransferCompleted(c)) =>
            [progress |-> up[c].progress, status |-> up[c].status, thrown |-> ret[c].error]
                \notin { FailureReport(e) : e \in BackendErrors }

\* ------------------------------------------------------ the tool handlers
Finished(c) == Dispatched(c) /\ pc[c] = "done"
UploadCall(c) == Dispatched(c) /\ call[c].name = "upload_file"
Envelope(c, message) ==
    [success |-> FALSE, error |-> message, tool |-> call[c].name,
     arguments |-> call[c].args]

\* the ledger's own record: the operating address owns folder f
Owned(f) ==
    /\ f \in FolderIds
    /\ owners[f] \in {WalletAddress, WalletAddressLower}

GateEvaluated(c) == "gate" \in DOMAIN call[c]
AddFileInvoked(c) == "tags" \in DOMAIN call[c]

\* C2: an upload_file call whose folder the operating address does not own
\* (or that does not exist) never invokes addFile, fails with NotOwner once
\* its upload has returned and the gate is asked, and no step changes the
\* file list of a folder that is not owned.
C2_NoLedgerWriteWithoutOwnership ==
    [][ /\ \A f \in FolderIds : ~Owned(f) => files'[f] = files[f]
        /\ (\A c \in Calls :
              (UploadCall(c) /\ ~Owned(call[c].args.folderId)) =>
                  /\ pc[c] \notin {"addFile", "txWait"}
                  /\ ~AddFileInvoked(c)
                  /\ Finished(c) => ~result[c].payload.success
                  /\ (Finished(c) /\ ret[c].kind = "returned") =>
                        result[c].payload = Envelope(c, NotOwnerMessage))' ]_vars

\* C2 witness: an upload to somebody else's folder ended in NotOwner after its
\* upload had returned
C2_Witness ==
    \E c \in Calls :
        /\ UploadCall(c) /\ Finished(c)
        /\ call[c].args.folderId = <<"2">>
        /\ ret[c].kind = "returned"
        /\ result[c].payload = Envelope(c, NotOwnerMessage)

\* errors that come from the environment of an upload_file call, not from
\* its arguments
EnvironmentErrors ==
    { errorMessage(e) : e \in BackendErrors \cup LedgerErrors }
        \cup {"ENOENT", "Synapse not initialized. Call initializeSynapse first."}

FileGiven(args) ==
    \/ Truthy(args.fileContent) /\ Truthy(args.fileName)
    \/ ~Truthy(args.fileContent) /\ Truthy(args.filePath)

\* C5: an upload_file call that names no folder and whose environment does
\* not fail succeeds: the upload ran to progress 100, the result carries a
\* non-empty content id, and neither the gate nor a ledger write was invoked.
C5_UploadWithoutFolderSucceeds ==
    \A c \in Calls :
        (/\ UploadCall(c) /\ Finished(c)
         /\ call[c].args.folderId = Undefined
         /\ FileGiven(call[c].args)
         /\ result[c].kind = "result"
         /\ (~result[c].payload.success => result[c].payload.error \notin EnvironmentErrors))
        => /\ result[c].payload.success
           /\ ret[c].kind = "returned"
           /\ sink[c] # << >> /\ Last(sink[c]).progress = 100
           /\ result[c].payload.pieceCid \in Cids
           /\ ~GateEvaluated(c) /\ ~AddFileInvoked(c)

\* C6: when the bytes were stored (uploadFile returned) and the link into the
\* folder did not happen, the result identifies the stored content.
C6_PartialSuccessSurfaced ==
    \A c \in Calls :
        (/\ UploadCall(c) /\ Finished(c)
         /\ ret[c].kind = "returned"
         /\ result[c].kind = "result"
         /\ ~result[c].payload.success)
        => /\ "pieceCid" \in DOMAIN result[c].payload
           /\ result[c].payload.pieceCid = ret[c].value.pieceCid

ValidArguments(name, args) ==
    CASE name = "upload_file" -> uploadFileSchema(args)
      [] name = "create_folder" -> createFolderSchema(args)
      [] name = UnknownToolName -> TRUE
      [] OTHER -> readSchema(name, args)

\* C8: dispatch never ends in an exception; every failure result is the
\* envelope {success: false, error, tool, arguments} (the search handler's own
\* degraded answer apart); invalid arguments, a failed upload, a denied gate
\* and an unknown operation name each end in that envelope with their error;
\* an unknown name is answered at once, with no downstream call.
C8_DispatcherIsErrorBoundary ==
    \A c \in Calls :
        /\ (Dispatched(c) /\ call[c].name = UnknownToolName) => pc[c] = "done"
        /\ Finished(c) =>
              /\ result[c].kind = "result"
              /\ LET payload == result[c].payload
                 IN  /\ ~payload.success =>
                           \/ payload = Envelope(c, payload.error)
                           \/ /\ call[c].name = "search_files_by_prompt"
                              /\ payload = [success |-> FALSE,
                                            error |-> "AI service unavailable"]
                     /\ call[c].name = UnknownToolName =>
                           /\ payload = Envelope(c, "Unknown tool")
                           /\ ret[c] = NoRet
                           /\ DOMAIN call[c] = {"caller", "name", "args"}
                     /\ ~ValidArguments(call[c].name, call[c].args) =>
                           payload = Envelope(c, errorMessage(ZodError))
                     /\ ret[c].kind = "threw" =>
                           payload = Envelope(c, errorMessage(ret[c].error))
                     /\ (GateEvaluated(c) /\ ~call[c].gate.value) =>
                           payload = Envelope(c, NotOwnerMessage)

\* C8 witness: a failed upload came back as the envelope
C8_Witness ==
    \E c \in Calls :
        /\ UploadCall(c) /\ Finished(c)
        /\ ret[c].kind = "threw"
        /\ result[c] = [kind |-> "result",
                        payload |-> Envelope(c, errorMessage(ret[c].error))]

\* ---------------------------------------------------- the ownership gate
GateCall(c) == call[c].caller = "gate" /\ pc[c] = "done"

\* C9: validateOwnership never throws, and returns false when the ledger
\* lookup of the owner failed.
C9_GateFailsClosed ==
    \A c \in Calls :
        GateCall(c) =>
            /\ result[c].kind = "result"
            /\ ~result[c].payload.threw
            /\ ~call[c].ownerOf.ok => result[c].payload.value = FALSE

\* C9 witness: a lookup that failed was answered with false
C9_Witness ==
    \E c \in Calls :
        /\ GateCall(c)
        /\ ~call[c].ownerOf.ok
        /\ result[c].payload = [threw |-> FALSE, value |-> FALSE]

CasePairs == { {"a", "A"}, {"b", "B"}, {"c", "C"}, {"d", "D"} }
EqualIgnoringCase(a, b) ==
    /\ Len(a) = Len(b)
    /\ \A i \in DOMAIN a : a[i] = b[i] \/ {a[i], b[i]} \in CasePairs

\* C10 as stated: with the lookup successful, the gate returns true exactly
\* when the owner equals callerAddress ignoring letter case, an absent
\* (undefined) callerAddress standing for the operating address.
C10_OwnerComparison ==
    \A c \in Calls :
        (GateCall(c) /\ call[c].ownerOf.ok) =>
            result[c].payload.value =
                EqualIgnoringCase(call[c].ownerOf.owner,
                                  IF call[c].userAddress = Undefined
                                  THEN WalletAddress ELSE call[c].userAddress)

\* C10 amended: the same, an absent or empty callerAddress standing for the
\* operating address.
C10_OwnerComparisonAmended ==
    \A c \in Calls :
        (GateCall(c) /\ call[c].ownerOf.ok) =>
            result[c].payload.value =
                EqualIgnoringCase(call[c].ownerOf.owner,
                                  IF call[c].userAddress \in {Undefined, EmptyString}
                                  THEN WalletAddress ELSE call[c].userAddress)

\* C10 witness: owner and caller address differ in letter case only
C10_Witness ==
    \E c \in Calls :
        /\ GateCall(c) /\ call[c].ownerOf.ok
        /\ call[c].userAddress = WalletAddress
        /\ call[c].ownerOf.owner = WalletAddressLower
        /\ result[c].payload.value = TRUE

\* -------------------------------------------------- the returned record
TransferEvents(log) == { i \in DOMAIN log : log[i].status.label = "uploaded" }
LastTransferEvent(log) == CHOOSE i \in TransferEvents(log) : \A j \in TransferEvents(log) : j <= i

\* C11: once the byte transfer has reported its content id (onUploadComplete),
\* every later event (piece added, piece confirmed, done, failed) carries that
\* id, and the record the upload returns has it as its pieceCid, whatever id
\* the upload call itself resolves with.
C11_ContentIdFromTransfer ==
    \A c \in Calls :
        (Recorded(c) /\ TransferEvents(sink[c]) # {}) =>
            LET i == LastTransferEvent(sink[c])
                reported == sink[c][i].uploadedInfo.pieceCid
            IN  /\ reported \in Cids
                /\ \A j \in DOMAIN sink[c] :
                      j > i => /\ "pieceCid" \in DOMAIN sink[c][j].uploadedInfo
                               /\ sink[c][j].uploadedInfo.pieceCid = reported
                /\ UploadReturned(c) => ret[c].value.pieceCid = reported

\* C11 witness: the transfer reported cidA, a piece-added event merged a
\* transaction hash after it, and the record returned carries cidA
C11_Witness ==
    \E c \in Calls :
        /\ Recorded(c) /\ UploadReturned(c)
        /\ \E i \in TransferEvents(sink[c]) : sink[c][i].uploadedInfo.pieceCid = "cidA"
        /\ \E j \in DOMAIN sink[c] : sink[c][j].status.label = "waiting"
        /\ "txHash" \in DOMAIN ret[c].value
        /\ Last(sink[c]).uploadedInfo.pieceCid = "cidA"
        /\ ret[c].value.pieceCid = "cidA"

\* ----------------------------------------------------- registry records
FileRecord(c) ==
    [cid |-> ret[c].value.pieceCid, filename |-> call[c].finalFileName,
     tags |-> call[c].tags]

\* the step in which the addFile transaction of call c is accepted
Accepted(c) ==
    /\ UploadCall(c) /\ pc[c] = "txWait"
    /\ pc'[c] = "done" /\ result'[c].payload.success

\* C12: a file record becomes visible in the registry exactly in the step in
\* which the addFile transaction of an upload_file call is accepted, and that
\* call's upload had reached 'pieces confirmed'; addFile is never submitted
\* for an upload that has not reached 'pieces confirmed'.
C12_RecordIffConfirmedAndAccepted ==
    [][ /\ \A f \in FolderIds :
              files'[f] # files[f] =>
                  \E c \in Calls :
                      /\ Accepted(c) /\ call[c].args.folderId = f
                      /\ hist[c].confirmed
                      /\ files'[f] = Append(files[f], FileRecord(c))
        /\ \A c \in Calls :
              Accepted(c) =>
                  files'[call[c].args.folderId] =
                      Append(files[call[c].args.folderId], FileRecord(c))
        /\ (\A c \in Calls :
              (UploadCall(c) /\ pc[c] \in {"addFile", "txWait"}) => hist[c].confirmed)'
      ]_vars

\* ------------------------------------------------------------- search
\* C13: when the search backend is unreachable or answers with an error,
\* search_files_by_prompt ends in a normal result whose payload is
\* {success: false, error: "AI service unavailable"}; nothing is raised to
\* the dispatcher, so the payload is not the dispatcher's envelope.
C13_SearchDegrades ==
    \A c \in Calls :
        (/\ Finished(c) /\ call[c].name = "search_files_by_prompt"
         /\ "search" \in DOMAIN call[c] /\ ~call[c].search.ok)
        => /\ result[c].kind = "result"
           /\ ~result[c].payload.success
           /\ result[c].payload.error = "AI service unavailable"
           /\ "tool" \notin DOMAIN result[c].payload

\* C13 witness: the search backend refused the connection and the call ended
\* in the degraded answer
C13_Witness ==
    \E c \in Calls :
        /\ Finished(c) /\ call[c].name = "search_files_by_prompt"
        /\ "search" \in DOMAIN call[c]
        /\ call[c].search = [ok |-> FALSE, error |-> Err("ECONNREFUSED")]
        /\ result[c].payload = [success |-> FALSE, error |-> "AI service unavailable"]

\* ------------------------------------------------- dataset creation fee
FeeIncluded(request) ==
    /\ "includeDatasetCreationFee" \in DOMAIN request
    /\ request.includeDatasetCreationFee = TRUE

\* the value computed after the dataset lookup (first half of C14)
C14_FeeComputed ==
    \A c \in Calls :
        pc[c] = "createStorage" =>
            up[c].includeDatasetCreationFee =
                IF up[c].feeOverride # NoBool THEN up[c].feeOverride
                ELSE Bool(~datasetExists)

\* C14: after the dataset lookup feeRequired is the caller's override when one
\* was given and otherwise true exactly when no dataset exists; and when it is
\* true, the session creation or the byte transfer that follows is asked to
\* include the dataset-creation fee.
C14_FeeRequiredAndIncluded ==
    /\ C14_FeeComputed
    /\ \A c \in Calls :
          (pc[c] \in {"createStorage", "upload"}
              /\ up[c].includeDatasetCreationFee = Bool(TRUE))
          => \/ FeeIncluded(createStorageRequest(up[c]))
             \/ FeeIncluded(uploadRequest(up[c]))

\* ---------------------------------------------------------------- tags
\* the extension as the specification defines it: the text after the last
\* '.', lower-cased; empty when the name has no '.'
ExtensionOf(fileName) ==
    LET dots == { i \in DOMAIN fileName : fileName[i] = "." }
    IN  IF dots = {} THEN EmptyString
        ELSE LET last == CHOOSE i \in dots : \A j \in dots : j <= i
             IN  [ i \in 1..(Len(fileName) - last) |-> lower(fileName[last + i]) ]

\* C15: the tags submitted with an attached file are exactly the lower-cased
\* extension of its file name (empty when the name has no extension) followed
\* by the provenance tag 'uploaded-via-mcp', and the record written carries
\* the same tags.
C15_TagsFromFileName ==
    /\ \A c \in Calls :
          (UploadCall(c) /\ AddFileInvoked(c)) =>
              call[c].tags = << ExtensionOf(call[c].finalFileName), ProvenanceTag >>
    /\ \A f \in FolderIds : \A i \in DOMAIN files[f] :
          files[f][i].tags = << ExtensionOf(files[f][i].filename), ProvenanceTag >>

\* ------------------------------------------------------ one write per call
InvokedTimes(c, op) ==
    Cardinality({ i \in DOMAIN hist[c].invoked : hist[c].invoked[i] = op })

\* the step in which upload_file call c ends in success
Succeeds(c) ==
    /\ UploadCall(c) /\ pc[c] # "done"
    /\ pc'[c] = "done" /\ result'[c].payload.success

\* C16: the step in which an upload_file call ends in success appends exactly
\* one record, the call's own, to the folder it names and changes no other
\* folder; the call has submitted addFile exactly once; no other step changes
\* a file list. A record already present is appended again.
C16_OneRecordPerSuccessfulCall ==
    [][ /\ \A c \in Calls :
              Succeeds(c) =>
                  /\ files' = [files EXCEPT ![call[c].args.folderId] =
                                  Append(@, FileRecord(c))]
                  /\ (InvokedTimes(c, "addFile") = 1)'
                  /\ (InvokedTimes(c, "txWait") = 1)'
        /\ files' # files => \E c \in Calls : Succeeds(c)
      ]_vars

\* C16 witness: two successful calls with the same bytes, name and folder
\* left two records with the same content id
C16_Witness ==
    \E c \in Calls :
        /\ UploadCall(c) /\ Finished(c) /\ result[c].payload.success
        /\ LET f == call[c].args.folderId
           IN  /\ Len(files[f]) = 2
               /\ files[f][1] = files[f][2]
               /\ files[f][2].cid = result[c].payload.pieceCid

\* ------------------------------------------------------------ validation
\* the arguments are rejected: by the operation's schema, or because
\* fileContent comes without fileName
Rejected(name, args) ==
    \/ ~ValidArguments(name, args)
    \/ /\ name = "upload_file"
       /\ Truthy(args.fileContent) /\ ~Truthy(args.fileName)

ValidationErrors ==
    { errorMessage(ZodError), "fileName is required when using fileContent",
      "Either filePath or fileContent must be provided" }

\* C17: a call whose arguments are rejected is answered in the dispatch step
\* itself: it is never suspended on a file read, a backend initialization, a
\* storage-backend call or a ledger call, uploadFile is not entered, and the
\* result is the dispatcher's envelope with the validation error.
C17_ValidationBeforeOrchestration ==
    \A c \in Calls :
        (Dispatched(c) /\ Rejected(call[c].name, call[c].args)) =>
            /\ pc[c] = "done"
            /\ hist[c].invoked = << >>
            /\ ret[c] = NoRet /\ sink[c] = << >>
            /\ result[c].kind = "result"
            /\ result[c].payload.error \in ValidationErrors
            /\ result[c].payload = Envelope(c, result[c].payload.error)

\* C17 witness: base64 content without a file name was turned away
C17_Witness ==
    \E c \in Calls :
        /\ UploadCall(c) /\ Finished(c)
        /\ Truthy(call[c].args.fileContent) /\ ~Truthy(call[c].args.fileName)
        /\ ValidArguments(call[c].name, call[c].args)
        /\ hist[c].invoked = << >>
        /\ result[c].payload =
              Envelope(c, "fileName is required when using fileContent")

\* ---------------------------------------------------- upload entry checks
BackendOps == {"findDataSets", "createStorage", "upload"}
BackendOpsInvoked(c) ==
    { i \in DOMAIN hist[c].invoked : hist[c].invoked[i] \in BackendOps }

NotInitialized ==
    { Err("Synapse not initialized. Call initializeSynapse first."),
      Err("Synapse not initialized. Please initialize Synapse first.") }
MissingAddress == Err("Address is required for file upload")

\* uploadFile has been entered by call c
UploadEntered(c) == InFlight(c) \/ ret[c].kind # "none"

\* C18: an upload with no storage backend bound (none passed in, none cached)
\* fails with NotInitialized; an upload with a backend and an empty address
\* fails with MissingAddress; in both cases no dataset lookup, session
\* creation or byte transfer is invoked. With both a backend and an address
\* the upload fails with neither error.
C18_EntryChecks ==
    \A c \in Calls :
        UploadEntered(c) =>
            /\ up[c].synapse = NoInstance =>
                  /\ ret[c].kind = "threw" /\ ret[c].error \in NotInitialized
                  /\ BackendOpsInvoked(c) = {}
            /\ (up[c].synapse # NoInstance /\ ~Truthy(up[c].address)) =>
                  /\ ret[c] = Threw(MissingAddress)
                  /\ BackendOpsInvoked(c) = {}
            /\ (up[c].synapse # NoInstance /\ Truthy(up[c].address)) =>
                  ret[c] \notin { Threw(e) : e \in NotInitialized \cup {MissingAddress} }

\* C18 witness: a cached backend and an empty address
C18_Witness ==
    \E c \in Calls :
        /\ call[c].caller = "direct"
        /\ up[c].synapse = synapseInstance /\ synapseInstance # NoInstance
        /\ up[c].address = EmptyString
        /\ ret[c] = Threw(MissingAddress)
        /\ hist[c].invoked = << >>

\* ------------------------------------------------- no retry, no rollback
\* every remote operation the program invokes; none of them deletes or
\* undoes stored bytes
RemoteOps ==
    BackendOps \cup {"readFile", "synapseCreate", "warmStorageCreate", "ownerOf",
                     "addFile", "txWait", "mintFolder", "mintWait", "ledgerRead",
                     "search"}

BackendOpsOf(c) ==
    [ i \in 1..Cardinality(BackendOpsInvoked(c)) |->
        hist[c].invoked[CHOOSE j \in BackendOpsInvoked(c) :
                           Cardinality({ k \in BackendOpsInvoked(c) : k <= j }) = i] ]

\* C19: within one upload call the dataset lookup, the session creation and
\* the byte transfer are each invoked at most once and in that order; the
\* step in which a backend operation fails invokes nothing and leaves the
\* call settled, with no backend operation pending; every operation invoked
\* is one of the program's known operations, none of which deletes or undoes.
C19_NoRetryNoRollback ==
    [][ \A c \in Calls :
          /\ (/\ \A op \in BackendOps : InvokedTimes(c, op) <= 1
              /\ BackendOpsOf(c) \in { << >>, <<"findDataSets">>,
                                       <<"findDataSets", "createStorage">>,
                                       <<"findDataSets", "createStorage", "upload">> }
              /\ \A i \in DOMAIN hist[c].invoked : hist[c].invoked[i] \in RemoteOps
              /\ ret[c].kind = "threw" => ~InFlight(c))'
          /\ (InFlight(c) /\ ret'[c].kind = "threw") => hist'[c] = hist[c]
      ]_vars

\* C19 witness: the byte transfer failed after the lookup and the session
\* creation, and the call settled having invoked each of the three once
C19_Witness ==
    \E c \in Calls :
        /\ UploadThrew(c)
        /\ BackendOpsOf(c) = <<"findDataSets", "createStorage", "upload">>
        /\ sink[c] # << >> /\ IsFailed(Last(sink[c]))

\* ------------------------------------------------------- frozen percentage
LabelOnly == {"provider", "waiting"}

\* C20: every 'provider selected' and every 'awaiting confirmation' event is
\* delivered after some other event and carries the progress value of the
\* event delivered immediately before it.
C20_LabelOnlyEvents ==
    \A c \in Calls :
        Recorded(c) =>
            \A i \in DOMAIN sink[c] :
                sink[c][i].status.label \in LabelOnly =>
                    /\ i > 1
                    /\ sink[c][i].progress = sink[c][i - 1].progress

\* C20 witness: after the transfer completed at 80, 'awaiting confirmation'
\* was delivered at 80
C20_Witness ==
    \E c \in Calls :
        /\ Recorded(c)
        /\ \E j \in DOMAIN sink[c] :
              /\ j > 1
              /\ sink[c][j - 1].status.label = "uploaded"
              /\ sink[c][j].status.label = "waiting"
              /\ sink[c][j].progress = 80

\* ------------------------------------------------- the transaction hash
\* the piece-added events that carried a transaction response
HashEvents(log) ==
    { i \in DOMAIN log : log[i].status.label = "waiting" /\ log[i].status.detail # "" }

HasFields(info, names) == \A n \in names : n \in DOMAIN info

\* C21: once a piece-added event has carried a transaction response, every
\* later snapshot and the returned record contain that txHash; where a
\* transfer-complete event precedes the snapshot, fileName, fileSize and
\* pieceCid are still those set at transfer completion; in whatever order the
\* backend fires the two callbacks.
C21_TxHashMergedNonDestructively ==
    \A c \in Calls :
        Recorded(c) =>
            \A i \in HashEvents(sink[c]) :
                /\ \A j \in DOMAIN sink[c] :
                      j > i =>
                          /\ HasFields(sink[c][j].uploadedInfo, {"txHash"})
                          /\ sink[c][j].uploadedInfo.txHash \in TxHashes
                          /\ \A k \in TransferEvents(sink[c]) :
                                (k < j /\ k = LastTransferEvent(SubSeq(sink[c], 1, j - 1))) =>
                                    /\ HasFields(sink[c][j].uploadedInfo,
                                                 {"fileName", "fileSize", "pieceCid"})
                                    /\ sink[c][j].uploadedInfo.pieceCid =
                                          sink[c][k].uploadedInfo.pieceCid
                                    /\ sink[c][j].uploadedInfo.fileName = up[c].fileName
                                    /\ sink[c][j].uploadedInfo.fileSize = up[c].fileSize
                /\ UploadReturned(c) =>
                      /\ HasFields(ret[c].value, {"txHash", "fileName", "fileSize", "pieceCid"})
                      /\ ret[c].value.txHash \in TxHashes

\* the events delivered before the byte transfer completed: those that precede
\* the first transfer-complete event, the final event excepted (it is emitted
\* after the upload call resolved)
BeforeTransfer(log) ==
    { j \in DOMAIN log : /\ \A k \in TransferEvents(log) : j < k
                         /\ log[j].status.label # "done" }

\* C22: the snapshot delivered with an event is null in every event emitted
\* before the byte transfer completes, and from the transfer-complete (80%)
\* event onward it contains fileName, fileSize and pieceCid.
C22_SnapshotNullUntilTransfer ==
    \A c \in Calls :
        Recorded(c) =>
            \A j \in DOMAIN sink[c] :
                IF j \in BeforeTransfer(sink[c])
                THEN sink[c][j].uploadedInfo = NullInfo
                ELSE HasFields(sink[c][j].uploadedInfo, {"fileName", "fileSize", "pieceCid"})

\* the second half alone: from the transfer-complete event onward the
\* snapshot contains fileName, fileSize and pieceCid
C22_SnapshotCompleteAfterTransfer ==
    \A c \in Calls :
        Recorded(c) =>
            \A j \in DOMAIN sink[c] \ BeforeTransfer(sink[c]) :
                HasFields(sink[c][j].uploadedInfo, {"fileName", "fileSize", "pieceCid"})

\* C23: the (0, failed) event carries the last known upload information: after
\* a transfer-complete event its snapshot contains that pieceCid, and the
\* txHash when a piece-added event had carried one; when the failure comes
\* before the transfer completed the snapshot is null.
C23_FailedEventCarriesLastKnownInfo ==
    \A c \in Calls :
        (Recorded(c) /\ EnteredTry(c) /\ UploadThrew(c)) =>
            LET log == sink[c]
                info == Last(log).uploadedInfo
            IN  /\ IsFailed(Last(log))
                /\ Last(log).progress = 0
                /\ IF TransferEvents(log) # {}
                   THEN /\ HasFields(info, {"pieceCid"})
                        /\ info.pieceCid = log[LastTransferEvent(log)].uploadedInfo.pieceCid
                        /\ HashEvents(log) # {} => HasFields(info, {"txHash"})
                   ELSE info = NullInfo

\* the part about the content id alone: a failure after a transfer-complete
\* event is reported with the pieceCid of that event
C23_FailedEventCarriesContentId ==
    \A c \in Calls :
        (Recorded(c) /\ EnteredTry(c) /\ UploadThrew(c) /\ TransferEvents(sink[c]) # {}) =>
            /\ IsFailed(Last(sink[c]))
            /\ HasFields(Last(sink[c]).uploadedInfo, {"pieceCid"})
            /\ Last(sink[c]).uploadedInfo.pieceCid =
                  sink[c][LastTransferEvent(sink[c])].uploadedInfo.pieceCid

\* ------------------------------------------------- overlapping uploads
\* the stage of uploadFile an event is emitted in: the orchestrator's own
\* events, the callbacks of createStorage, the callbacks of upload, the end
StageOf(label) ==
    CASE label = "init" -> 1
      [] label = "allowance" -> 2
      [] label = "setup" -> 3
      [] label \in {"resolved", "creating", "txConfirmed", "ready", "provider"} -> 4
      [] label = "uploading" -> 5
      [] label \in {"uploaded", "waiting", "confirmed"} -> 6
      [] label \in {"done", "failed"} -> 7
      [] OTHER -> 0

\* the order the events of one call are in when it runs alone: stage by stage,
\* one event each for the orchestrator's own steps, the terminal event last
SingleCallOrder(log) ==
    /\ \A i, j \in DOMAIN log :
          i < j => /\ StageOf(log[i].status.label) <= StageOf(log[j].status.label)
                   /\ StageOf(log[i].status.label) \in {1, 2, 3, 5, 7}
                         => StageOf(log[i].status.label) < StageOf(log[j].status.label)
    /\ \A i \in DOMAIN log : StageOf(log[i].status.label) # 0
    /\ log # << >> => log[1].status.label = "init"

\* what a snapshot or a returned record holds comes from the call's own
\* arguments and from callbacks this call's log has recorded
OwnInfo(c, info, earlier) ==
    /\ "fileName" \in DOMAIN info =>
          /\ info.fileName = FileNameOf(c)
          /\ info.fileName = up[c].fileName
          /\ info.fileSize = up[c].fileSize
    /\ ("pieceCid" \in DOMAIN info /\ TransferEvents(earlier) # {}) =>
          info.pieceCid = earlier[LastTransferEvent(earlier)].uploadedInfo.pieceCid
    /\ "txHash" \in DOMAIN info =>
          \E k \in HashEvents(earlier) : earlier[k].status.detail = info.txHash

Isolated(c) ==
    /\ SingleCallOrder(sink[c])
    /\ \A j \in DOMAIN sink[c] :
          LET ev == sink[c][j]
          IN  /\ OwnInfo(c, ev.uploadedInfo, SubSeq(sink[c], 1, j))
              /\ (ev.uploadedInfo # NullInfo /\ ev.status.label # "done") =>
                    \/ TransferEvents(SubSeq(sink[c], 1, j)) # {}
                    \/ HashEvents(SubSeq(sink[c], 1, j - 1)) # {}
    /\ sink[c] # << >> =>
          /\ Last(sink[c]).progress = up[c].progress
          /\ Last(sink[c]).status = up[c].status
    /\ UploadReturned(c) => OwnInfo(c, ret[c].value, sink[c])

\* what belongs to one invocation of uploadFile
Private(c) == << up[c], sink[c], ret[c], pc[c], hist[c] >>

\* C24: under every interleaving of two uploads, what a call's sink is
\* handed and what the call returns holds only its own file name and the content
\* id and transaction hash its own callbacks reported, its events are in the
\* order they have when the call runs alone, and no step changes the progress,
\* status, uploadedInfo, events or outcome of more than one call.
C24_ConcurrentUploadsIsolated ==
    [][ /\ \A c \in Calls : (Recorded(c) => Isolated(c))'
        /\ \A c, d \in Calls :
              (c # d /\ Private(c)' # Private(c)) => Private(d)' = Private(d)
      ]_vars

\* both uploads are in flight at once for the same address: one has reported
\* its transfer and holds its file name and content id, the other has merged
\* a transaction hash and holds nothing else
C24_Witness ==
    /\ InFlight(1) /\ InFlight(2)
    /\ Recorded(1) /\ Recorded(2)
    /\ up[1].address = up[2].address
    /\ TransferEvents(sink[1]) # {} /\ HashEvents(sink[2]) # {}
    /\ up[1].uploadedInfo.fileName = FileNameOf(1)
    /\ DOMAIN up[2].uploadedInfo = {"txHash"}

\* ------------------------------------------- initialization inside upload_file
\* the handler caught a failure of initializeSynapseFromEnv in this call
InitFailed(c) ==
    /\ UploadCall(c)
    /\ "initFailed" \in DOMAIN call[c]
    /\ call[c].initFailed

InitFailureMessages ==
    { initializeSynapseCatch(e).message : e \in BackendErrors }

\* C25: a failure of the backend initialization in an upload_file call is not
\* reported and does not stop the call. uploadFile is entered; with a cached
\* instance it is used for every backend operation and the call does not fail
\* with NotInitialized; with none the upload throws at entry, the call ends in
\* the dispatcher's envelope for NotInitialized, no backend operation, gate
\* or addFile is invoked and no step of the call changes a file list.
C25_InitFailureIgnored ==
    [][ \A c \in Calls :
          (InitFailed(c))' =>
              /\ (/\ UploadEntered(c)
                  /\ Finished(c) =>
                        (~result[c].payload.success =>
                             result[c].payload.error \notin InitFailureMessages)
                  /\ up[c].synapse = synapseInstance
                  /\ IF synapseInstance # NoInstance
                     THEN /\ BackendOpsInvoked(c) # {}
                          /\ \A i \in DOMAIN hist[c].targets :
                                hist[c].targets[i] = synapseInstance
                          /\ (ret[c].kind = "threw" => ret[c].error \notin NotInitialized)
                     ELSE /\ pc[c] \in {"uploadSettled", "done"}
                          /\ ret[c] = Threw(Err("Synapse not initialized. Call initializeSynapse first."))
                          /\ BackendOpsInvoked(c) = {}
                          /\ ~GateEvaluated(c) /\ ~AddFileInvoked(c)
                          /\ Finished(c) =>
                                result[c].payload =
                                    Envelope(c, "Synapse not initialized. Call initializeSynapse first."))'
              /\ synapseInstance' = NoInstance => files' = files
      ]_vars

\* C25 witness: the initialization failed, an instance cached by an earlier
\* call was used, and the call succeeded
C25_Witness ==
    \E c \in Calls :
        /\ InitFailed(c) /\ Finished(c)
        /\ result[c].payload.success
        /\ up[c].synapse = synapseInstance /\ synapseInstance # NoInstance
        /\ "upload" \in { hist[c].invoked[i] : i \in DOMAIN hist[c].invoked }

\* ------------------------------------------------- the gate comes after the upload
Invoked(c, op) == \E i \in DOMAIN hist[c].invoked : hist[c].invoked[i] = op

\* op1 was invoked, and before every invocation of op2
Precedes(c, op1, op2) ==
    \A j \in DOMAIN hist[c].invoked :
        hist[c].invoked[j] = op2 =>
            \E i \in 1..(j - 1) : hist[c].invoked[i] = op1

\* C26: in an upload_file call the owner is asked for only after uploadFile
\* has returned, with the byte transfer invoked before; a call that ends in
\* NotOwner has transferred its bytes, holds their content id and invokes
\* nothing after the gate (the bytes stay where they are); a call whose upload
\* threw never asks the ledger for the owner.
C26_GateAfterUpload ==
    \A c \in Calls :
        UploadCall(c) =>
            /\ (Invoked(c, "ownerOf") \/ GateEvaluated(c)) =>
                  /\ ret[c].kind = "returned"
                  /\ Precedes(c, "upload", "ownerOf")
                  /\ ret[c].value.pieceCid \in Cids
            /\ (UploadEntered(c) /\ ret[c].kind # "returned") =>
                  /\ ~Invoked(c, "ownerOf")
                  /\ ~GateEvaluated(c)
                  /\ pc[c] # "ownerOf"
            /\ (Finished(c) /\ ~Owned(call[c].args.folderId)
                  /\ result[c].payload = Envelope(c, NotOwnerMessage)) =>
                  /\ Invoked(c, "upload")
                  /\ ret[c].kind = "returned"
                  /\ Last(sink[c]).progress = 100
                  /\ Last(hist[c].invoked) = "ownerOf"

\* C26 witness: a call into somebody else's folder transferred its bytes, then
\* asked for the owner, then failed with NotOwner
C26_Witness ==
    \E c \in Calls :
        /\ UploadCall(c) /\ Finished(c)
        /\ call[c].args.folderId = <<"2">>
        /\ BackendOpsOf(c) = <<"findDataSets", "createStorage", "upload">>
        /\ Invoked(c, "ownerOf") /\ Precedes(c, "upload", "ownerOf")
        /\ ret[c].kind = "returned" /\ ret[c].value.pieceCid \in Cids
        /\ result[c].payload = Envelope(c, NotOwnerMessage)

\* ------------------------------------------------- the cached storage session
\* a direct call of initializeSynapse
InitCall(c) == call[c].caller = "init"

\* the cached pair: nothing, or an instance and the service created from it
ConsistentPair ==
    \/ synapseInstance = NoInstance /\ warmStorageServiceInstance = NoInstance
    \/ /\ synapseInstance \in InstIds
       /\ warmStorageServiceInstance = synapseInstance

\* C27: in every reachable state, under any interleaving of initialize and
\* reset calls (and of uploads), the cached instance and the cached service
\* are both absent or both present and of the same initialization call; a step
\* that changes the cache clears both or stores the instance and the service
\* one call created.
C27_CachedPairConsistent ==
    [][ /\ ConsistentPair'
        /\ cacheVars' # cacheVars =>
              \/ synapseInstance' = NoInstance /\ warmStorageServiceInstance' = NoInstance
              \/ \E c \in Calls :
                    /\ pc[c] = "warmStorageCreate" /\ pc'[c] # "warmStorageCreate"
                    /\ synapseInstance' = call[c].synapse
                    /\ warmStorageServiceInstance' = call[c].synapse
      ]_vars

\* C27 witness: one initialization has stored its pair while another, which
\* has created an instance of its own, is waiting for its service
C27_Witness ==
    \E c, d \in Calls :
        /\ InitCall(c) /\ pc[c] = "warmStorageCreate"
        /\ InitCall(d) /\ pc[d] = "done" /\ result[d].kind = "returned"
        /\ synapseInstance = result[d].value.synapse
        /\ warmStorageServiceInstance = result[d].value.warmStorageService
        /\ call[c].synapse # synapseInstance

\* C28: no step of an initializeSynapse call that does not return changes the
\* cached pair: not its start, not a Synapse.create that resolves or rejects,
\* not a WarmStorageService.create that rejects. The call that throws leaves
\* both singletons as it found them.
C28_FailedInitLeavesCache ==
    [][ \A c \in Calls :
          (/\ pc'[c] # pc[c]
           /\ InitCall(c)'
           /\ pc'[c] \in {"synapseCreate", "warmStorageCreate", "done"}
           /\ ~(pc'[c] = "done" /\ result'[c].kind = "returned"))
          => /\ cacheVars' = cacheVars
             /\ pc'[c] = "done" =>
                   /\ result'[c].kind = "threw"
                   /\ result'[c].error.message \in InitFailureMessages
      ]_vars

\* C28 witness: a session is cached and an initializeSynapse call has failed
\* at its second step, the creation of the warm-storage service
C28_Witness ==
    \E c \in Calls :
        /\ InitCall(c) /\ pc[c] = "done" /\ result[c].kind = "threw"
        /\ hist[c].invoked = <<"synapseCreate", "warmStorageCreate">>
        /\ synapseInstance \in InstIds
        /\ warmStorageServiceInstance = synapseInstance
        /\ call[c].synapse # synapseInstance

\* C29: every backend operation of an upload goes to the instance the upload
\* resolved at entry, and that instance does not change while the upload is in
\* flight, whatever happens to the cached instance in the meantime.
C29_OneInstanceThroughout ==
    [][ \A c \in Calls :
          /\ (InFlight(c) /\ InFlight(c)') => up'[c].synapse = up[c].synapse
          /\ ((call[c].caller = "direct" /\ UploadEntered(c)) =>
                 /\ \A i \in DOMAIN hist[c].targets :
                       hist[c].targets[i] = up[c].synapse
                 /\ Len(hist[c].targets) = Cardinality(BackendOpsInvoked(c))
                 /\ InFlight(c) => up[c].synapse \in InstIds)'
      ]_vars

\* C29 witness: an upload that took the cached instance at entry is suspended
\* in its byte transfer, its three backend operations made on that instance,
\* and the cached instance is by now another one, stored by an
\* initializeSynapse of the other call
C29_Witness ==
    \E c, d \in Calls :
        /\ call[c].caller = "direct" /\ pc[c] = "upload"
        /\ hist[c].invoked = <<"findDataSets", "createStorage", "upload">>
        /\ InitCall(d) /\ pc[d] = "done" /\ result[d].kind = "returned"
        /\ synapseInstance = result[d].value.synapse
        /\ up[c].synapse # synapseInstance
        /\ hist[c].targets = << up[c].synapse, up[c].synapse, up[c].synapse >>
====
